---- MODULE Spec2Model ----
(***************************************************************************)
(* chunkflow: the inference Executor (src/chunkflow/executor.py).          *)
(*                                                                         *)
(* One Executor object and one invocation of Executor.__call__.  The       *)
(* variables are the object's attributes, the position of __call__ (pc)    *)
(* and what the external collaborators have seen so far: the reads of the  *)
(* volume stores, the writes to the output store and the files put into    *)
(* the log sink.  Axes are always in the executor's own z, y, x order.     *)
(***************************************************************************)
EXTENDS Integers, Sequences, FiniteSets, TLC

VARIABLES
    cfg,          \* the constructor's arguments (Executor.__init__)
    pc,           \* the stage __call__ runs next, or "idle", "done", "raised"
    err,          \* the exception that left __call__, "none" while there is none
    trace,        \* the stages entered by this invocation, in order
    output_bbox,  \* self.output_bbox
    output_mask,  \* self.output_mask
    xyfactor,     \* self.xyfactor
    image,        \* self.image (an OffsetArray)
    output,       \* self.output
    upsampled,    \* the local array `mask` of _mask_output
    result,       \* the local `result` of _validate_image
    matched,      \* the value of np.alltrue(validate_image == clamped_image)
    log,          \* the keys of self.log
    reads,        \* the volumes read so far
    store,        \* the writes to the output and thumbnail volumes
    uploads,      \* the files put into the log sink, in order
    section_ids,  \* the ids in the missing-section file, Unset while not known
    pixels,       \* the voxels of self.image, Unset while not followed
    clamped_image,\* the local `clamped_image` of _validate_image
    plan,         \* the patch placements of the block inference engine
    sqs,          \* an SQSQueue object and the calls made on it
    invocation,   \* the number of invocations of __call__ begun on this object
    entries       \* self.log as a dict: per key, the assignment that stored it

vars == <<cfg, pc, err, trace, output_bbox, output_mask, xyfactor, image,
          output, upsampled, result, matched, log, reads, store, uploads,
          section_ids, pixels, clamped_image, plan, sqs, invocation, entries>>

\* what the stages of Executor.__call__ never assign
aside == <<section_ids, pixels, plan, sqs>>

(***************************************************************************)
(* Bounds of the model.                                                    *)
(***************************************************************************)
MaxStart == 1        \* lateral start of the output bounding box: 0..MaxStart
MaxExtent == 4       \* lateral extent of the output bounding box: 1..MaxExtent
MaxDepth == 1        \* depth extent of the output bounding box: 1..MaxDepth
MaxMaskCells == 2    \* elements of a fetched mask
MaxOutCells == 8     \* voxels of one channel of the cropped output
MaxMaskMip == 1      \* output_mask_mip: 0..MaxMaskMip (output_mip is 0)
MaxChannels == 4     \* num_output_channels: 1..MaxChannels
MaxIds == 2          \* length of the missing-section id list
MaxMargin == 1       \* cropping margin of an axis, drawn per axis: 0..MaxMargin
MaxBox == 3          \* extent per axis of a box handed to the patch planner
MaxPatch == 2        \* patch size per axis handed to the patch planner
MaxMessages == 21    \* length of a message list handed to send_message_list
RecursionLimit == 3  \* nested calls the interpreter allows (1000 by default)
MaxHalvings == 2     \* image_validate_mip - image_mip in the downsampling loop
MaxImageDepth == 4   \* depth of an image whose voxels are followed
MaxImageExtent == 8  \* lateral extent of an image whose voxels are followed
MaxBlock == 4        \* edge of the zero block put into such an image
MaxCalls == 2        \* invocations of __call__ on one Executor object

(***************************************************************************)
(* Program constants.                                                      *)
(***************************************************************************)
DefaultChannels == 3 \* num_output_channels=3
DefaultWait == 100   \* SQSQueue: wait_if_empty: int = 100
BatchSize == 10      \* send_message_list: if len(task_entries) == 10
MaskedChannels == 3  \* the channels 0, 1, 2 that _mask_output multiplies

(***************************************************************************)
(* Values: None, an attribute that was never assigned, arrays.             *)
(***************************************************************************)
NoneVal == [kind |-> "None"]
Unset == [kind |-> "unset"]

Max(a, b) == IF a >= b THEN a ELSE b
Min(a, b) == IF a <= b THEN a ELSE b

RECURSIVE Pow2(_)
Pow2(n) == IF n <= 0 THEN 1 ELSE 2 * Pow2(n - 1)

\* floor division, as Python's // on integers with a positive divisor
FloorDiv(a, b) == a \div b

Idx3(shape) == (0 .. shape[1] - 1) \X (0 .. shape[2] - 1) \X (0 .. shape[3] - 1)
Idx4(shape) ==
    (0 .. shape[1] - 1) \X (0 .. shape[2] - 1) \X (0 .. shape[3] - 1)
        \X (0 .. shape[4] - 1)

Cells3(shape) == shape[1] * shape[2] * shape[3]

IsArray(a) == a.kind = "ndarray"

\* the mask values a store may hold
MaskVals == {0, 1, 2}

Arrays3(shape) ==
    { [kind |-> "ndarray", shape |-> shape, data |-> d] :
        d \in [Idx3(shape) -> MaskVals] }

\* np.all(a == 0); None == 0 is False
np_all_eq0(a) ==
    IF IsArray(a) THEN \A i \in DOMAIN a.data : a.data[i] = 0 ELSE FALSE

\* np.all(a)
np_all(a) == \A i \in DOMAIN a.data : a.data[i] # 0

\* np.any(a)
np_any(a) == \E i \in DOMAIN a.data : a.data[i] # 0

\* bool(a) as `if a:` evaluates it: None is false, an empty array is false, a
\* one-element array is its element, a larger array raises ValueError
Truth(a) ==
    IF ~IsArray(a) THEN "False"
    ELSE IF Cardinality(DOMAIN a.data) = 0 THEN "False"
    ELSE IF Cardinality(DOMAIN a.data) = 1
         THEN (IF np_all(a) THEN "True" ELSE "False")
    ELSE "ValueError"

(***************************************************************************)
(* Bounding boxes and the regions derived from them.                       *)
(***************************************************************************)
Extent(bbox) == [a \in 1 .. 3 |-> Max(0, bbox.stop[a] - bbox.start[a])]

\* the output bounding boxes a caller may pass: depth starts at 1, rows at
\* 0..MaxStart, columns at 0
BBoxes ==
    { [start |-> <<1, ys, 0>>, stop |-> <<1 + d, ys + h, w>>] :
        d \in 1 .. MaxDepth, ys \in 0 .. MaxStart,
        h \in 1 .. MaxExtent, w \in 1 .. MaxExtent }

\* self.xyfactor = 2**(self.output_mask_mip - self.output_mip)
XYFactor(c) == Pow2(c.output_mask_mip - c.output_mip)

\* self.output_mask_slices: depth as it is, the lateral axes floor-divided
OutputMaskSlices(bbox, f) ==
    [start |-> <<bbox.start[1], FloorDiv(bbox.start[2], f),
                 FloorDiv(bbox.start[3], f)>>,
     stop |-> <<bbox.stop[1], FloorDiv(bbox.stop[2], f),
                FloorDiv(bbox.stop[3], f)>>]

\* the margin added before the box only: slice(s.start - m, s.stop)
InputSlices_LeadingOnly(bbox, margin) ==
    [start |-> [a \in 1 .. 3 |-> bbox.start[a] - margin[a]],
     stop |-> [a \in 1 .. 3 |-> bbox.stop[a]]]

\* self.input_slices: slice(s.start - m, s.stop + m) per axis
InputSlices(bbox, margin) ==
    [start |-> [a \in 1 .. 3 |-> bbox.start[a] - margin[a]],
     stop |-> [a \in 1 .. 3 |-> bbox.stop[a] + margin[a]]]

\* the file name of a log: self.output_bbox.to_filename(), one name per box
ToFilename(bbox) == bbox

(***************************************************************************)
(* Executor.__init__: the configurations.                                  *)
(***************************************************************************)
Frameworks == {"pytorch-multitask", "bogus"}

Margins == {<<0, 0, 0>>, <<1, 1, 1>>}

\* image_validate_mip: <<>> is None, <<m>> is the mip m
ValidateMips == {<<>>, <<1>>}

\* patch_size, and the patch_overlap values: one below it, one not
PatchSize == <<1, 2, 2>>

PatchOverlaps == {<<0, 1, 1>>, <<1, 2, 2>>}

Executor(mask_path, mask_mip, validate_mip, ids_file, framework, margin, channels, overlap) ==
    [patch_size |-> PatchSize,
     patch_overlap |-> overlap,
     output_mask_layer_path |-> mask_path,
     output_mip |-> 0,
     image_mip |-> 0,
     output_mask_mip |-> mask_mip,
     image_validate_mip |-> validate_mip,
     missing_section_ids_file_name |-> ids_file,
     framework |-> framework,
     cropping_margin_size |-> margin,
     num_output_channels |-> channels]

Configs ==
    { Executor(mp, mm, vm, ids, fw, mg, DefaultChannels, ov) :
        mp \in BOOLEAN, mm \in 0 .. MaxMaskMip, vm \in ValidateMips,
        ids \in BOOLEAN, fw \in Frameworks, mg \in Margins,
        ov \in PatchOverlaps }

\* the boxes whose mask and output stay within the model's bounds
Fits(c, bbox) ==
    /\ Extent(bbox)[1] * Extent(bbox)[2] * Extent(bbox)[3] <= MaxOutCells
    /\ c.output_mask_layer_path =>
         Cells3(Extent(OutputMaskSlices(bbox, XYFactor(c)))) <= MaxMaskCells

(***************************************************************************)
(* The arrays the pluggable transform may return (czyx order).             *)
(***************************************************************************)
Array4(shape, d) == [kind |-> "ndarray", order |-> "czyx", shape |-> shape, data |-> d]

Zeros4(shape) == Array4(shape, [i \in Idx4(shape) |-> 0])

\* every voxel nonzero and different from every other
Ramp4(shape) ==
    Array4(shape,
           [i \in Idx4(shape) |->
               1 + i[4] + shape[4] * (i[3] + shape[3] * (i[2] + shape[2] * i[1]))])

OutputArrays(shape) == {Zeros4(shape), Ramp4(shape)}

\* zero but for the first voxel of every channel
OneHot4(shape) ==
    Array4(shape,
           [i \in Idx4(shape) |-> IF i[2] = 0 /\ i[3] = 0 /\ i[4] = 0 THEN 1 ELSE 0])

(***************************************************************************)
(* Executor._crop                                                          *)
(***************************************************************************)
\* only the leading margin cut: a[m:]
Crop_LeadingOnly(out, margin) ==
    LET shape == <<out.shape[1],
                   Max(0, out.shape[2] - margin[1]),
                   Max(0, out.shape[3] - margin[2]),
                   Max(0, out.shape[4] - margin[3])>>
    IN  Array4(shape,
               [i \in Idx4(shape) |->
                   out.data[<<i[1], i[2] + margin[1], i[3] + margin[2],
                              i[4] + margin[3]>>]])

\* a[m : n - m] keeps max(0, n - 2m) elements, starting at m
Crop(out, margin) ==
    LET shape == <<out.shape[1],
                   Max(0, out.shape[2] - 2 * margin[1]),
                   Max(0, out.shape[3] - 2 * margin[2]),
                   Max(0, out.shape[4] - 2 * margin[3])>>
    IN  Array4(shape,
               [i \in Idx4(shape) |->
                   out.data[<<i[1], i[2] + margin[1], i[3] + margin[2],
                              i[4] + margin[3]>>]])

(***************************************************************************)
(* Executor._mask_output                                                   *)
(***************************************************************************)
\* the length of a[o::f] for an axis of length n
StridedLen(n, o, f) == IF o < n THEN (n - o + f - 1) \div f ELSE 0

\* numpy broadcasting of an assignment: per axis equal lengths, or source 1
Broadcasts(src, tgt) == \A a \in 1 .. 3 : src[a] = tgt[a] \/ src[a] = 1

\* mask[:, o0::f, o1::f] = self.output_mask is accepted for every offset
UpsampleAccepted(mask, shape, f) ==
    \A o0 \in 0 .. f - 1, o1 \in 0 .. f - 1 :
        Broadcasts(mask.shape,
                   <<shape[1], StridedLen(shape[2], o0, f),
                     StridedLen(shape[3], o1, f)>>)

\* the element of a source axis of length n that lands on target index k
BroadcastIndex(n, k) == IF n = 1 THEN 0 ELSE k

\* the local array `mask` after the np.ndindex loop
Upsample(mask, shape, f) ==
    [kind |-> "ndarray", shape |-> shape,
     data |-> [i \in Idx3(shape) |->
                 mask.data[<<BroadcastIndex(mask.shape[1], i[1]),
                             BroadcastIndex(mask.shape[2], i[2] \div f),
                             BroadcastIndex(mask.shape[3], i[3] \div f)>>]]]

\* np.multiply(self.output[c], mask, out=self.output[c]) for the channels below n
MultiplyChannels(out, up, n) ==
    Array4(out.shape,
           [i \in Idx4(out.shape) |->
               IF i[1] < n
               THEN out.data[i] * up.data[<<i[2], i[3], i[4]>>]
               ELSE out.data[i]])

\* _mask_output without its first early return
MaskOutputResult_NoShortCircuit(out, mask, f) ==
    LET shape == <<out.shape[2], out.shape[3], out.shape[4]>>
        up == Upsample(mask, shape, f)
        done == MultiplyChannels(out, up, Min(MaskedChannels, out.shape[1]))
    IN  IF ~np_any(out)
        THEN [err |-> "none", output |-> out, mask |-> Unset]
        ELSE IF ~np_any(mask)
        THEN [err |-> "AssertionError", output |-> out, mask |-> Unset]
        ELSE IF ~UpsampleAccepted(mask, shape, f)
        THEN [err |-> "ValueError", output |-> out, mask |-> Unset]
        ELSE IF out.shape[1] < MaskedChannels
        THEN [err |-> "IndexError", output |-> done, mask |-> up]
        ELSE IF ~np_any(done)
        THEN [err |-> "AssertionError", output |-> done, mask |-> up]
        ELSE [err |-> "none", output |-> done, mask |-> up]

\* the outcome of _mask_output: the exception, self.output and the local mask
MaskOutputResult(out, mask, f) ==
    LET shape == <<out.shape[2], out.shape[3], out.shape[4]>>
        up == Upsample(mask, shape, f)
        done == MultiplyChannels(out, up, Min(MaskedChannels, out.shape[1]))
    IN  IF np_all(mask)
        THEN [err |-> "none", output |-> out, mask |-> Unset]
        ELSE IF ~np_any(out)
        THEN [err |-> "none", output |-> out, mask |-> Unset]
        ELSE IF ~np_any(mask)
        THEN [err |-> "AssertionError", output |-> out, mask |-> Unset]
        ELSE IF ~UpsampleAccepted(mask, shape, f)
        THEN [err |-> "ValueError", output |-> out, mask |-> Unset]
        ELSE IF out.shape[1] < MaskedChannels
        THEN [err |-> "IndexError", output |-> done, mask |-> up]
        ELSE IF ~np_any(done)
        THEN [err |-> "AssertionError", output |-> done, mask |-> up]
        ELSE [err |-> "none", output |-> done, mask |-> up]

(***************************************************************************)
(* Executor._mask_missing_sections                                         *)
(***************************************************************************)
\* the ascending id lists of at most MaxIds ids around the depth range
IdLists(start, stop) ==
    { ids \in UNION { [1 .. n -> (start - 1) .. (stop + 1)] : n \in 0 .. MaxIds } :
        \A k \in 1 .. Len(ids) - 1 : ids[k] < ids[k + 1] }

\* what np.loadtxt may return: the ids of the file where they are known
FileIds(start, stop) ==
    IF section_ids.kind = "ids" THEN {section_ids.ids} ELSE IdLists(start, stop)

\* the loop over the ids, from the k-th on: the exception and the zeroed slices
RECURSIVE MissingLoop(_, _, _, _, _, _)
MissingLoop(ids, k, start, stop, depth, black) ==
    IF k > Len(ids) THEN [err |-> "none", black |-> black]
    ELSE IF ids[k] > stop THEN [err |-> "none", black |-> black]
    ELSE IF ids[k] >= start /\ ids[k] <= stop
    THEN IF ids[k] - start >= depth
         THEN [err |-> "IndexError", black |-> black]
         ELSE MissingLoop(ids, k + 1, start, stop, depth,
                          black \cup {ids[k] - start})
    ELSE MissingLoop(ids, k + 1, start, stop, depth, black)

\* np.loadtxt gives a 0-d array for a single id, which a for loop rejects
MaskMissing(img, ids) ==
    IF Len(ids) = 1
    THEN [err |-> "TypeError", black |-> img.black]
    ELSE MissingLoop(ids, 1, img.global_offset[1],
                     img.global_offset[1] + img.shape[1], img.shape[1], img.black)

(***************************************************************************)
(* Executor.__call__, one action per stage.  A stage that raises leaves    *)
(* __call__ at once: there is no try block, so pc becomes "raised".        *)
(***************************************************************************)
Enter(stage) == trace' = Append(trace, stage)

Raise(e) == pc' = "raised" /\ err' = e

\* the file _upload_log puts under log_path
LogFile(log_path, keys) ==
    [path |-> log_path, file_path |-> ToFilename(output_bbox), content |-> keys]

\* the early return with its test inverted
IsBlack_Inverted(mask) == ~np_all_eq0(mask)

\* if np.all(self.output_mask == 0): return
IsBlack(mask) == np_all_eq0(mask)

\* the log of the last invocation kept for the next one
NewLog_Kept == entries

\* self.log = dict()
NewLog == [k \in {} |-> Unset]

\* self.log[k] = ... for the keys a stage writes, an assignment of a dict: a
\* key that is there already gets the new value.  The value is named by the
\* invocation and the stage that measured it.
Put(keys) ==
    [k \in DOMAIN entries \cup keys |->
        IF k \in keys THEN [call |-> invocation, at |-> Len(trace) + 1]
        ELSE entries[k]]

\* the log an initial state in the middle of an invocation holds
Logged == [k \in log |-> [call |-> invocation, at |-> Len(trace)]]

\* self.output_bbox = output_bbox; self.log = dict()
Invoke(boxes) ==
    /\ \E bbox \in boxes : output_bbox' = bbox
    /\ invocation' = invocation + 1
    /\ entries' = NewLog
    /\ log' = DOMAIN NewLog
    /\ trace' = <<>>
    /\ pc' = "read_output_mask"

\* __call__ on a new Executor object
Call ==
    /\ pc = "idle"
    /\ Invoke({ bbox \in BBoxes : Fits(cfg, bbox) })
    /\ UNCHANGED <<aside, clamped_image,
                   cfg, err, output_mask, xyfactor, image, output, upsampled,
                   result, matched, reads, store, uploads>>

\* _read_output_mask, then the early return on a black mask
ReadOutputMask ==
    /\ pc = "read_output_mask"
    /\ Enter("read_output_mask")
    /\ IF ~cfg.output_mask_layer_path
       THEN /\ output_mask' = NoneVal
            /\ log' = log \cup {"read_output_mask"}
            /\ entries' = Put({"read_output_mask"})
            /\ pc' = IF IsBlack(NoneVal) THEN "done" ELSE "read_image"
            /\ UNCHANGED <<xyfactor, reads, err>>
       ELSE /\ xyfactor' = XYFactor(cfg)
            /\ reads' = Append(reads,
                   [vol |-> "output_mask",
                    slices |-> OutputMaskSlices(output_bbox, XYFactor(cfg))])
            /\ \/ /\ Raise("FetchError")
                  /\ UNCHANGED <<output_mask, log, entries>>
               \/ \E m \in Arrays3(Extent(OutputMaskSlices(output_bbox, XYFactor(cfg)))) :
                    /\ output_mask' = m
                    /\ log' = log \cup {"read_output_mask"}
                    /\ entries' = Put({"read_output_mask"})
                    /\ pc' = IF IsBlack(m) THEN "done" ELSE "read_image"
                    /\ UNCHANGED err
    /\ UNCHANGED <<aside, invocation, clamped_image,
                   cfg, output_bbox, image, output, upsampled, result, matched,
                   store, uploads>>

\* _read_image: the output box grown by the margin, as an OffsetArray
ReadImage ==
    /\ pc = "read_image"
    /\ Enter("read_image")
    /\ LET slices == InputSlices(output_bbox, cfg.cropping_margin_size)
       IN  /\ reads' = Append(reads, [vol |-> "image", slices |-> slices])
           /\ \/ /\ Raise("FetchError")
                 /\ UNCHANGED <<image, log, entries>>
              \/ /\ image' = [kind |-> "OffsetArray",
                              global_offset |-> slices.start,
                              shape |-> Extent(slices),
                              black |-> {}]
                 /\ log' = log \cup {"read_image"}
                 /\ entries' = Put({"read_image"})
                 /\ pc' = "validate_image"
                 /\ UNCHANGED err
    /\ UNCHANGED <<aside, invocation, clamped_image,
                   cfg, output_bbox, output_mask, xyfactor, output, upsampled,
                   result, matched, store, uploads>>

\* the test of image_validate_mip dropped: validation runs in any case
ValidationConfigured_Always(c) == TRUE

\* if self.image_validate_mip is None: return
ValidationConfigured(c) == c.image_validate_mip # <<>>

\* self.image_vol.voxel_offset
VoxelOffset == <<0, 0, 0>>

\* factor3, in z, y, x order: 2**(image_validate_mip - image_mip) laterally
ValidateFactor(c) ==
    LET f == Pow2(c.image_validate_mip[1] - c.image_mip) IN <<1, f, f>>

\* clamped_offset and clamped_stop, in z, y, x order
ClampedSlices(img, c) ==
    LET f == ValidateFactor(c)
        go == img.global_offset
    IN  [start |-> [a \in 1 .. 3 |->
                       go[a] + f[a] - ((go[a] - VoxelOffset[a]) % f[a])],
         stop |-> [a \in 1 .. 3 |->
                      go[a] + img.shape[a]
                          - ((go[a] + img.shape[a] - VoxelOffset[a]) % f[a])]]

\* self.image.cutout(slices): the voxels of a global range inside the image
Cutout(a, global_offset, slices) ==
    LET shape == Extent(slices)
    IN  [kind |-> "ndarray", shape |-> shape,
         data |-> [i \in Idx3(shape) |->
                     a.data[<<i[1] + slices.start[1] - global_offset[1],
                              i[2] + slices.start[2] - global_offset[2],
                              i[3] + slices.start[3] - global_offset[3]>>]]]

\* downsample_with_averaging(a, [2, 2, 1]): every 2 x 2 lateral block becomes
\* its integer average, depth stays (the lateral extents are even here: the
\* clamped extents are multiples of the factor)
Halve(a) ==
    LET shape == <<a.shape[1], a.shape[2] \div 2, a.shape[3] \div 2>>
    IN  [kind |-> "ndarray", shape |-> shape,
         data |-> [i \in Idx3(shape) |->
                     (a.data[<<i[1], 2 * i[2], 2 * i[3]>>]
                        + a.data[<<i[1], 2 * i[2] + 1, 2 * i[3]>>]
                        + a.data[<<i[1], 2 * i[2], 2 * i[3] + 1>>]
                        + a.data[<<i[1], 2 * i[2] + 1, 2 * i[3] + 1>>]) \div 4]]

\* the loop run once more than the mip levels ask for
RECURSIVE RecursiveDownsample_OnceMore(_, _)
RecursiveDownsample_OnceMore(a, n) ==
    IF n < 0 THEN a ELSE RecursiveDownsample_OnceMore(Halve(a), n - 1)

\* for _ in range(image_validate_mip - image_mip): downsample_with_averaging
RECURSIVE RecursiveDownsample(_, _)
RecursiveDownsample(a, n) ==
    IF n <= 0 THEN a ELSE RecursiveDownsample(Halve(a), n - 1)

\* edge of the all-zero block the heuristic looks for
TemplateEdge == 2

\* validate_by_template_matching: False when the image holds an all-zero
\* block of TemplateEdge voxels along every axis
validate_by_template_matching(a) ==
    IF \E p \in Idx3(a.shape) :
          /\ \A k \in 1 .. 3 : p[k] + TemplateEdge <= a.shape[k]
          /\ \A i \in Idx3(<<TemplateEdge, TemplateEdge, TemplateEdge>>) :
                a.data[<<p[1] + i[1], p[2] + i[2], p[3] + i[3]>>] = 0
    THEN "False"
    ELSE "True"

\* the local clamped_image after the loop, where the voxels are followed
ClampedImage ==
    IF pixels.kind = "unset" THEN Unset
    ELSE RecursiveDownsample(
             Cutout(pixels, image.global_offset, ClampedSlices(image, cfg)),
             cfg.image_validate_mip[1] - cfg.image_mip)

\* the heuristic not asked: the image taken as good
TemplateResults_Ignored(a) == {"True"}

\* result = validate_by_template_matching(clamped_image)
TemplateResults(a) ==
    IF a.kind = "unset" THEN {"True", "False"}
    ELSE {validate_by_template_matching(a)}

\* the error log published whatever the heuristic says
ErrorLog_Always(r) == <<LogFile("error", log)>>

\* the error log published under the path of the normal log
ErrorLog_ToLogPath(r) ==
    IF r = "False" THEN <<LogFile("log", log)>> ELSE <<>>

\* the error log never published
ErrorLog_Never(r) == <<>>

\* if result is False: self._upload_log(os.path.join(output_layer_path, 'error'))
\* (r is "False" exactly when the test `result is False` succeeds)
ErrorLog(r) ==
    IF r = "False" THEN <<LogFile("error", log)>> ELSE <<>>

\* the comparison with the reference not asserted
ReferenceAccepted_Always(m) == TRUE

\* assert np.alltrue(validate_image == clamped_image)
ReferenceAccepted(m) == m = "True"

\* _validate_image
ValidateImage ==
    /\ pc = "validate_image"
    /\ Enter("validate_image")
    /\ IF ~ValidationConfigured(cfg)
       THEN /\ log' = log \cup {"validate_image"}
            /\ entries' = Put({"validate_image"})
            /\ pc' = "mask_missing_sections"
            /\ UNCHANGED <<clamped_image, result, matched, reads, uploads, err>>
       ELSE /\ clamped_image' = ClampedImage
            /\ \E r \in TemplateResults(ClampedImage) :
               /\ result' = r
               /\ \/ /\ ErrorLog(r) # <<>>
                     /\ Raise("StorageError")
                     /\ UNCHANGED <<matched, reads, uploads, log, entries>>
                  \/ /\ uploads' = uploads \o ErrorLog(r)
                     /\ reads' = Append(reads,
                            [vol |-> "validate", slices |-> <<>>])
                     /\ \/ /\ Raise("FetchError")
                           /\ UNCHANGED <<matched, log, entries>>
                        \/ \E m \in {"True", "False"} :
                             /\ matched' = m
                             /\ IF ReferenceAccepted(m)
                                THEN /\ log' = log \cup {"validate_image"}
                                     /\ entries' = Put({"validate_image"})
                                     /\ pc' = "mask_missing_sections"
                                     /\ UNCHANGED err
                                ELSE /\ Raise("AssertionError")
                                     /\ UNCHANGED <<log, entries>>
    /\ UNCHANGED <<aside, invocation, cfg, output_bbox, output_mask, xyfactor, image, output,
                   upsampled, store>>

\* _mask_missing_sections
MaskMissingSections ==
    /\ pc = "mask_missing_sections"
    /\ Enter("mask_missing_sections")
    /\ IF ~cfg.missing_section_ids_file_name
       THEN /\ log' = log \cup {"mask_missing_sections"}
            /\ entries' = Put({"mask_missing_sections"})
            /\ pc' = "inference"
            /\ UNCHANGED <<image, err>>
       ELSE \/ /\ Raise("IOError")
               /\ UNCHANGED <<image, log, entries>>
            \/ \E ids \in FileIds(image.global_offset[1],
                                  image.global_offset[1] + image.shape[1]) :
                 LET r == MaskMissing(image, ids)
                 IN  /\ image' = [image EXCEPT !.black = r.black]
                     /\ IF r.err = "none"
                        THEN /\ log' = log \cup {"mask_missing_sections"}
                             /\ entries' = Put({"mask_missing_sections"})
                             /\ pc' = "inference"
                             /\ UNCHANGED err
                        ELSE /\ Raise(r.err)
                             /\ UNCHANGED <<log, entries>>
    /\ UNCHANGED <<aside, invocation, clamped_image,
                   cfg, output_bbox, output_mask, xyfactor, output, upsampled,
                   result, matched, reads, store, uploads>>

\* _prepare_inference_engine: the keys it logs, or the exception it raises
LogsDevice(framework) == framework \in {"pytorch", "pytorch-multitask"}

KnownFramework(framework) ==
    framework \in {"pznet", "pytorch", "pytorch-multitask", "identity"}

\* BlockInferenceEngine(patch_size=..., patch_overlap=...): the engine takes
\* a configuration whose overlap is below the patch size on every axis
EngineAccepts(c) ==
    \A a \in 1 .. 3 : 0 <= c.patch_overlap[a] /\ c.patch_overlap[a] < c.patch_size[a]

\* the failure of a patch noted, and the run going on with a partial blend
TransformFailure_Continue ==
    /\ err' = "TransformError"
    /\ pc' = "crop"
    /\ output' = Zeros4(<<cfg.num_output_channels>> \o image.shape)

\* self.block_inference_engine(input_chunk) raises: __call__ is left at once
TransformFailure ==
    /\ Raise("TransformError")
    /\ UNCHANGED output

\* _inference: build the engine, run it over the image
Inference ==
    /\ pc = "inference"
    /\ Enter("inference")
    /\ IF ~KnownFramework(cfg.framework)
       THEN /\ Raise("Exception")
            /\ UNCHANGED <<output, log, entries>>
       ELSE LET keys == IF LogsDevice(cfg.framework) THEN {"device"} ELSE {}
            IN  IF ~EngineAccepts(cfg)
                THEN /\ Raise("ConfigurationError")
                     /\ log' = log \cup keys
                     /\ entries' = Put(keys)
                     /\ UNCHANGED output
                ELSE \/ /\ TransformFailure
                        /\ log' = log \cup keys
                        /\ entries' = Put(keys)
                     \/ \E out \in OutputArrays(<<cfg.num_output_channels>>
                                                  \o image.shape) :
                          /\ output' = out
                          /\ log' = log \cup keys \cup {"_inference"}
                          /\ entries' = Put(keys \cup {"_inference"})
                          /\ pc' = "crop"
                          /\ UNCHANGED err
    /\ UNCHANGED <<aside, invocation, clamped_image,
                   cfg, output_bbox, output_mask, xyfactor, image, upsampled,
                   result, matched, reads, store, uploads>>

\* if self.output_mask: the stage after the crop, or the exception of the test
AfterCrop(mask) ==
    CASE Truth(mask) = "True" -> "mask_output"
      [] Truth(mask) = "False" -> "upload_output"
      [] OTHER -> "raised"

\* _crop, then the test of self.output_mask
CropMargin ==
    /\ pc = "crop"
    /\ Enter("crop")
    /\ output' = Crop(output, cfg.cropping_margin_size)
    /\ log' = log \cup {"crop_output"}
    /\ entries' = Put({"crop_output"})
    /\ pc' = AfterCrop(output_mask)
    /\ err' = IF AfterCrop(output_mask) = "raised" THEN "ValueError" ELSE err
    /\ UNCHANGED <<aside, invocation, clamped_image,
                   cfg, output_bbox, output_mask, xyfactor, image, upsampled,
                   result, matched, reads, store, uploads>>

\* _mask_output
MaskOutput ==
    /\ pc = "mask_output"
    /\ Enter("mask_output")
    /\ LET r == MaskOutputResult(output, output_mask, xyfactor)
       IN  /\ output' = r.output
           /\ upsampled' = r.mask
           /\ IF r.err = "none"
              THEN /\ log' = log \cup {"mask_output"}
                   /\ entries' = Put({"mask_output"})
                   /\ pc' = "upload_output"
                   /\ UNCHANGED err
              ELSE /\ Raise(r.err)
                   /\ UNCHANGED <<log, entries>>
    /\ UNCHANGED <<aside, invocation, clamped_image,
                   cfg, output_bbox, output_mask, xyfactor, image, result,
                   matched, reads, store, uploads>>

\* np.transpose(self.output): czyx becomes xyzc
Transpose(out) == [out EXCEPT !.order = "xyzc"]

\* the spatial shape of the output is the shape of the box it is written to
SameShape(out, bbox) ==
    <<out.shape[2], out.shape[3], out.shape[4]>> = Extent(bbox)

\* _upload_output
UploadOutput ==
    /\ pc = "upload_output"
    /\ Enter("upload_output")
    /\ output' = Transpose(output)
    /\ \/ /\ Raise(IF SameShape(output, output_bbox) THEN "StorageError"
                   ELSE "ValueError")
          /\ UNCHANGED <<store, log, entries>>
       \/ /\ SameShape(output, output_bbox)
          /\ store' = Append(store,
                 [layer |-> "output", bbox |-> output_bbox, data |-> output.data])
          /\ log' = log \cup {"upload_output"}
          /\ entries' = Put({"upload_output"})
          /\ pc' = "create_output_thumbnail"
          /\ UNCHANGED err
    /\ UNCHANGED <<aside, invocation, clamped_image,
                   cfg, output_bbox, output_mask, xyfactor, image, upsampled,
                   result, matched, reads, uploads>>

\* _create_output_thumbnail: the last channel, downsampled and uploaded
CreateOutputThumbnail ==
    /\ pc = "create_output_thumbnail"
    /\ Enter("create_output_thumbnail")
    /\ \/ /\ Raise("StorageError")
          /\ UNCHANGED <<store, log, entries>>
       \/ /\ store' = Append(store,
                 [layer |-> "thumbnail", bbox |-> output_bbox, data |-> <<>>])
          /\ log' = log \cup {"create_output_thumbnail"}
          /\ entries' = Put({"create_output_thumbnail"})
          /\ pc' = "upload_log"
          /\ UNCHANGED err
    /\ UNCHANGED <<aside, invocation, clamped_image,
                   cfg, output_bbox, output_mask, xyfactor, image, output,
                   upsampled, result, matched, reads, uploads>>

\* self.log['total_time'], then _upload_log under 'log'
UploadLog ==
    /\ pc = "upload_log"
    /\ Enter("upload_log")
    /\ log' = log \cup {"total_time"}
    /\ entries' = Put({"total_time"})
    /\ \/ /\ Raise("StorageError")
          /\ UNCHANGED uploads
       \/ /\ uploads' = Append(uploads, LogFile("log", log'))
          /\ pc' = "done"
          /\ UNCHANGED err
    /\ UNCHANGED <<aside, invocation, clamped_image,
                   cfg, output_bbox, output_mask, xyfactor, image, output,
                   upsampled, result, matched, reads, store>>

(***************************************************************************)
(* The specification of one invocation of a constructed Executor.          *)
(***************************************************************************)
Init ==
    /\ cfg \in { c \in Configs : c.output_mask_layer_path \/ c.output_mask_mip = 0 }
    /\ pc = "idle"
    /\ err = "none"
    /\ trace = <<>>
    /\ output_bbox = Unset
    /\ output_mask = Unset
    /\ xyfactor = 0
    /\ image = Unset
    /\ output = Unset
    /\ upsampled = Unset
    /\ result = "unset"
    /\ matched = "unset"
    /\ log = {}
    /\ invocation = 0
    /\ entries = Logged
    /\ reads = <<>>
    /\ store = <<>>
    /\ uploads = <<>>
    /\ section_ids = Unset
    /\ pixels = Unset
    /\ clamped_image = Unset
    /\ plan = Unset
    /\ sqs = Unset

Next ==
    \/ Call
    \/ ReadOutputMask
    \/ ReadImage
    \/ ValidateImage
    \/ MaskMissingSections
    \/ Inference
    \/ CropMargin
    \/ MaskOutput
    \/ UploadOutput
    \/ CreateOutputThumbnail
    \/ UploadLog

Spec == Init /\ [][Next]_vars

(***************************************************************************)
(* _mask_output on its own: the stage is entered with any mask fetched for *)
(* the box, any transform output of the box's shape and any number of      *)
(* output channels.                                                        *)
(***************************************************************************)
MaskConfigs ==
    { Executor(TRUE, mm, <<>>, FALSE, "pytorch-multitask", <<0, 0, 0>>, ch,
               <<0, 1, 1>>) :
        mm \in 0 .. MaxMaskMip, ch \in 1 .. MaxChannels }

InitMask ==
    /\ cfg \in MaskConfigs
    /\ pc = "mask_output"
    /\ err = "none"
    /\ trace = <<>>
    /\ output_bbox \in { b \in BBoxes : Fits(cfg, b) }
    /\ xyfactor = XYFactor(cfg)
    /\ output_mask \in Arrays3(Extent(OutputMaskSlices(output_bbox, xyfactor)))
    /\ image = Unset
    /\ output \in OutputArrays(<<cfg.num_output_channels>> \o Extent(output_bbox))
                    \cup {OneHot4(<<cfg.num_output_channels>> \o Extent(output_bbox))}
    /\ upsampled = Unset
    /\ result = "unset"
    /\ matched = "unset"
    /\ log = {}
    /\ invocation = 1
    /\ entries = Logged
    /\ reads = <<>>
    /\ store = <<>>
    /\ uploads = <<>>
    /\ section_ids = Unset
    /\ pixels = Unset
    /\ clamped_image = Unset
    /\ plan = Unset
    /\ sqs = Unset

NextMask == MaskOutput

SpecMask == InitMask /\ [][NextMask]_vars

(***************************************************************************)
(* _crop on its own: the stage is entered with the transform output of an  *)
(* image that was read with any margin per axis and any number of          *)
(* channels.                                                               *)
(***************************************************************************)
CropConfigs ==
    { Executor(FALSE, 0, <<>>, FALSE, "pytorch-multitask", mg, ch,
               <<0, 1, 1>>) :
        mg \in [1 .. 3 -> 0 .. MaxMargin], ch \in 1 .. MaxChannels }

InitCrop ==
    /\ cfg \in CropConfigs
    /\ pc = "crop"
    /\ err = "none"
    /\ trace = <<>>
    /\ output_bbox \in { b \in BBoxes : Fits(cfg, b) }
    /\ xyfactor = 0
    /\ output_mask = NoneVal
    /\ LET slices == InputSlices(output_bbox, cfg.cropping_margin_size)
       IN  /\ image = [kind |-> "OffsetArray", global_offset |-> slices.start,
                       shape |-> Extent(slices), black |-> {}]
           /\ output \in OutputArrays(<<cfg.num_output_channels>> \o Extent(slices))
    /\ upsampled = Unset
    /\ result = "unset"
    /\ matched = "unset"
    /\ log = {}
    /\ invocation = 1
    /\ entries = Logged
    /\ reads = <<>>
    /\ store = <<>>
    /\ uploads = <<>>
    /\ section_ids = Unset
    /\ pixels = Unset
    /\ clamped_image = Unset
    /\ plan = Unset
    /\ sqs = Unset

NextCrop == CropMargin

SpecCrop == InitCrop /\ [][NextCrop]_vars

(***************************************************************************)
(* _mask_missing_sections on its own: the stage is entered with the image  *)
(* read for the box and its margin, and with a file of ascending ids.      *)
(***************************************************************************)
MissingConfigs ==
    { Executor(FALSE, 0, <<>>, TRUE, "pytorch-multitask", mg, DefaultChannels,
               <<0, 1, 1>>) :
        mg \in [1 .. 3 -> 0 .. MaxMargin] }

InitMissing ==
    /\ cfg \in MissingConfigs
    /\ pc = "mask_missing_sections"
    /\ err = "none"
    /\ trace = <<>>
    /\ output_bbox \in { b \in BBoxes : Fits(cfg, b) }
    /\ xyfactor = 0
    /\ output_mask = NoneVal
    /\ LET slices == InputSlices(output_bbox, cfg.cropping_margin_size)
       IN  /\ image = [kind |-> "OffsetArray", global_offset |-> slices.start,
                       shape |-> Extent(slices), black |-> {}]
           /\ section_ids \in { [kind |-> "ids", ids |-> ids] :
                                   ids \in IdLists(slices.start[1], slices.stop[1]) }
    /\ output = Unset
    /\ upsampled = Unset
    /\ result = "unset"
    /\ matched = "unset"
    /\ log = {}
    /\ invocation = 1
    /\ entries = Logged
    /\ reads = <<>>
    /\ store = <<>>
    /\ uploads = <<>>
    /\ pixels = Unset
    /\ clamped_image = Unset
    /\ plan = Unset
    /\ sqs = Unset

NextMissing == MaskMissingSections

SpecMissing == InitMissing /\ [][NextMissing]_vars

(***************************************************************************)
(* From _read_image to _upload_output: __call__ after an absent output     *)
(* mask, for any margin per axis.  No validation, no missing sections.     *)
(***************************************************************************)
RoundTripConfigs ==
    { Executor(FALSE, 0, <<>>, FALSE, "pytorch-multitask", mg, DefaultChannels,
               <<0, 1, 1>>) :
        mg \in [1 .. 3 -> 0 .. MaxMargin] }

InitRoundTrip ==
    /\ cfg \in RoundTripConfigs
    /\ pc = "read_image"
    /\ err = "none"
    /\ trace = <<"read_output_mask">>
    /\ output_bbox \in { b \in BBoxes : Fits(cfg, b) }
    /\ xyfactor = 0
    /\ output_mask = NoneVal
    /\ image = Unset
    /\ output = Unset
    /\ upsampled = Unset
    /\ result = "unset"
    /\ matched = "unset"
    /\ log = {"read_output_mask"}
    /\ invocation = 1
    /\ entries = Logged
    /\ reads = <<>>
    /\ store = <<>>
    /\ uploads = <<>>
    /\ section_ids = Unset
    /\ pixels = Unset
    /\ clamped_image = Unset
    /\ plan = Unset
    /\ sqs = Unset

NextRoundTrip ==
    \/ ReadImage
    \/ ValidateImage
    \/ MaskMissingSections
    \/ Inference
    \/ CropMargin
    \/ UploadOutput

SpecRoundTrip == InitRoundTrip /\ [][NextRoundTrip]_vars

(***************************************************************************)
(* One Executor object called again and again.  An invocation that         *)
(* returned or raised is followed by the next one; the attributes of the   *)
(* object stay as the last invocation left them, the locals of its stages  *)
(* are gone.                                                               *)
(***************************************************************************)
\* with or without an output mask (at the mip of the output) and validation
CallConfigs ==
    { Executor(mp, 0, vm, FALSE, "pytorch-multitask", <<0, 0, 0>>,
               DefaultChannels, <<0, 1, 1>>) :
        mp \in BOOLEAN, vm \in ValidateMips }

\* two boxes of one voxel, so that the file names of two logs may differ
CallBoxes ==
    { [start |-> <<1, ys, 0>>, stop |-> <<2, ys + 1, 1>>] : ys \in {0, 1} }

InitCalls ==
    /\ cfg \in CallConfigs
    /\ pc = "idle"
    /\ err = "none"
    /\ trace = <<>>
    /\ output_bbox = Unset
    /\ output_mask = Unset
    /\ xyfactor = 0
    /\ image = Unset
    /\ output = Unset
    /\ upsampled = Unset
    /\ result = "unset"
    /\ matched = "unset"
    /\ log = {}
    /\ invocation = 0
    /\ entries = Logged
    /\ reads = <<>>
    /\ store = <<>>
    /\ uploads = <<>>
    /\ section_ids = Unset
    /\ pixels = Unset
    /\ clamped_image = Unset
    /\ plan = Unset
    /\ sqs = Unset

\* __call__ on an object that is new, or whose last invocation is over
CallAgain ==
    /\ pc \in {"idle", "done", "raised"}
    /\ invocation < MaxCalls
    /\ Invoke(CallBoxes)
    /\ err' = "none"
    /\ upsampled' = Unset
    /\ result' = "unset"
    /\ matched' = "unset"
    /\ clamped_image' = Unset
    /\ UNCHANGED <<aside, cfg, output_mask, xyfactor, image, output, reads,
                   store, uploads>>

NextCalls ==
    \/ CallAgain
    \/ ReadOutputMask
    \/ ReadImage
    \/ ValidateImage
    \/ MaskMissingSections
    \/ Inference
    \/ CropMargin
    \/ MaskOutput
    \/ UploadOutput
    \/ CreateOutputThumbnail
    \/ UploadLog

SpecCalls == InitCalls /\ [][NextCalls]_vars

(***************************************************************************)
(* The patch planner of the block inference engine: the placements for an  *)
(* input box, a patch size and an overlap.  The stride is patch size minus *)
(* overlap; a patch that would pass the end of the box is shifted inward.  *)
(***************************************************************************)
\* the starts along one axis, every patch at its stride: no shift inward
AxisStarts_NoShift(lo, hi, p, o) ==
    { lo + k * (p - o) :
        k \in { j \in 0 .. (hi - lo) : j = 0 \/ lo + (j - 1) * (p - o) + p < hi } }

\* the starts along one axis: one patch per stride until a patch reaches the
\* end of the box, the last one moved back to end at the end of the box
AxisStarts(lo, hi, p, o) ==
    { Min(lo + k * (p - o), hi - p) :
        k \in { j \in 0 .. (hi - lo) : j = 0 \/ lo + (j - 1) * (p - o) + p < hi } }

\* the placements: one box of patch size per combination of axis starts
Placements(box, p, o) ==
    { [start |-> <<z, y, x>>, stop |-> <<z + p[1], y + p[2], x + p[3]>>] :
        z \in AxisStarts(box.start[1], box.stop[1], p[1], o[1]),
        y \in AxisStarts(box.start[2], box.stop[2], p[2], o[2]),
        x \in AxisStarts(box.start[3], box.stop[3], p[3], o[3]) }

\* the input boxes, patch sizes and overlaps handed to the planner
PlanInputs ==
    { [box |-> [start |-> <<1, 1, 0>>,
                stop |-> <<1 + n[1], 1 + n[2], n[3]>>],
       patch_size |-> p, patch_overlap |-> o] :
        n \in [1 .. 3 -> 1 .. MaxBox], p \in [1 .. 3 -> 1 .. MaxPatch],
        o \in [1 .. 3 -> 0 .. MaxPatch] }

\* the executor and its invocation, not yet called
ExecutorIdle ==
    /\ cfg = Unset
    /\ pc = "idle"
    /\ err = "none"
    /\ trace = <<>>
    /\ output_bbox = Unset
    /\ output_mask = Unset
    /\ xyfactor = 0
    /\ image = Unset
    /\ output = Unset
    /\ upsampled = Unset
    /\ result = "unset"
    /\ matched = "unset"
    /\ log = {}
    /\ invocation = 0
    /\ entries = Logged
    /\ reads = <<>>
    /\ store = <<>>
    /\ uploads = <<>>
    /\ section_ids = Unset
    /\ pixels = Unset
    /\ clamped_image = Unset

InitPlan ==
    /\ ExecutorIdle
    /\ sqs = Unset
    /\ plan \in { [input |-> i, placements |-> {}, state |-> "new"] :
                    i \in { j \in PlanInputs :
                              \A a \in 1 .. 3 : j.patch_overlap[a] <= j.patch_size[a] } }

\* the engine plans the patches of its input, or turns the configuration down
PlanPatches ==
    /\ plan.state = "new"
    /\ IF EngineAccepts(plan.input)
       THEN plan' = [plan EXCEPT
                       !.placements = Placements(plan.input.box, plan.input.patch_size,
                                                 plan.input.patch_overlap),
                       !.state = "planned"]
       ELSE plan' = [plan EXCEPT !.state = "ConfigurationError"]
    /\ UNCHANGED <<invocation, cfg, pc, err, trace, output_bbox, output_mask, xyfactor, image,
                   output, upsampled, result, matched, log, entries, reads, store, uploads,
                   section_ids, pixels, clamped_image, sqs>>

NextPlan == PlanPatches

SpecPlan == InitPlan /\ [][NextPlan]_vars

(***************************************************************************)
(* SQSQueue (src/chunkflow/lib/aws/sqs_queue.py): one queue object, the    *)
(* calls of __next__, delete and send_message_list made on it one after    *)
(* the other, and what the queue service answers.                          *)
(***************************************************************************)
\* wait_if_empty: 0 stands for the values that are false (0, None)
WaitSettings == {0, DefaultWait}

\* SQSQueue.__init__
SQSQueue(wait) ==
    [wait_if_empty |-> wait,
     pc |-> "idle",           \* __next__: "idle", "next" (in a call), "returned", "raised"
     depth |-> 0,             \* nested calls of __next__ below the first
     slept |-> 0,             \* seconds slept by the call
     value |-> NoneVal,       \* what __next__ returned
     err |-> "none",          \* the exception that left __next__
     deleted |-> {},          \* receipt handles handed to delete_message
     message_list |-> <<>>,   \* the argument of send_message_list
     delivered |-> <<>>,      \* the batches the service accepted, in order
     task_entries |-> <<>>,   \* the local list when send_message_list ended
     send |-> "none"]         \* send_message_list: "none", "returned" or the exception

\* what receive_message may answer: no 'Messages', or one message whose
\* MD5OfBody is or is not the digest of its body
Responses ==
    {[has_messages |-> FALSE]}
        \cup { [has_messages |-> TRUE, ReceiptHandle |-> h, Body |-> b, md5_ok |-> ok] :
                 h \in {"h1", "h2"}, b \in {"task"}, ok \in BOOLEAN }

\* an empty queue ends the call whatever wait_if_empty is
Retries_Never(wait) == FALSE

\* if self.wait_if_empty:
Retries(wait) == wait # 0

\* one activation of __next__ on the answer of receive_message
NextStep(q, resp) ==
    IF ~resp.has_messages
    THEN IF Retries(q.wait_if_empty)
         THEN IF q.depth + 1 >= RecursionLimit
              THEN [q EXCEPT !.pc = "raised", !.err = "RecursionError",
                             !.slept = q.slept + q.wait_if_empty]
              ELSE [q EXCEPT !.pc = "next", !.depth = q.depth + 1,
                             !.slept = q.slept + q.wait_if_empty]
         ELSE [q EXCEPT !.pc = "raised", !.err = "StopIteration"]
    ELSE IF resp.md5_ok
         THEN [q EXCEPT !.pc = "returned",
                        !.value = [kind |-> "pair",
                                   receipt_handle |-> resp.ReceiptHandle,
                                   body |-> resp.Body]]
         ELSE [q EXCEPT !.pc = "raised", !.err = "AssertionError"]

\* __next__: a new call, or the call it makes on itself after the sleep
Receive ==
    /\ sqs.pc \in {"idle", "returned", "raised", "next"}
    /\ LET q == IF sqs.pc = "next" THEN sqs
                ELSE [sqs EXCEPT !.depth = 0, !.slept = 0, !.value = NoneVal,
                                 !.err = "none"]
       IN  \E resp \in Responses : sqs' = NextStep(q, resp)
    /\ UNCHANGED <<invocation, cfg, pc, err, trace, output_bbox, output_mask, xyfactor, image,
                   output, upsampled, result, matched, log, entries, reads, store, uploads,
                   section_ids, pixels, clamped_image, plan>>

\* delete: the handle of the message just returned goes to delete_message
Delete ==
    /\ sqs.pc = "returned"
    /\ sqs.value.receipt_handle \notin sqs.deleted
    /\ sqs' = [sqs EXCEPT !.deleted = sqs.deleted \cup {sqs.value.receipt_handle}]
    /\ UNCHANGED <<invocation, cfg, pc, err, trace, output_bbox, output_mask, xyfactor, image,
                   output, upsampled, result, matched, log, entries, reads, store, uploads,
                   section_ids, pixels, clamped_image, plan>>

\* the message lists: n different messages, named 1 .. n
MessageLists == { [i \in 1 .. n |-> i] : n \in 0 .. MaxMessages }

\* what the service does to the calls of send_message_batch: nothing wrong,
\* or at the k-th call an exception, or a response with 'Failed' in it after
\* the first `kept` entries of the batch (never all of them) were taken
Faults ==
    {[kind |-> "none", call |-> 0, kept |-> 0]}
        \cup { [kind |-> "ClientError", call |-> k, kept |-> 0] :
                 k \in 1 .. (MaxMessages \div BatchSize + 1) }
        \cup { [kind |-> "Failed", call |-> k, kept |-> j] :
                 k \in 1 .. (MaxMessages \div BatchSize + 1), j \in {0, 1} }

\* the failed entries of a batch noticed by nobody: the list is cleared
SendEntryList_Silent(st, fault) ==
    LET k == Len(st.calls) + 1
        calls == Append(st.calls, Len(st.task_entries))
    IN  IF fault.call = k /\ fault.kind = "ClientError"
        THEN [st EXCEPT !.calls = calls, !.send = "ClientError"]
        ELSE IF fault.call = k /\ fault.kind = "Failed"
        THEN [st EXCEPT !.calls = calls,
                        !.delivered = Append(st.delivered,
                            SubSeq(st.task_entries, 1,
                                   Min(fault.kept, Len(st.task_entries) - 1))),
                        !.task_entries = <<>>]
        ELSE [st EXCEPT !.calls = calls,
                        !.delivered = Append(st.delivered, st.task_entries),
                        !.task_entries = <<>>]

\* _send_entry_list: send_message_batch, assert 'Failed' not in resp, clear
SendEntryList(st, fault) ==
    LET k == Len(st.calls) + 1
        calls == Append(st.calls, Len(st.task_entries))
    IN  IF fault.call = k /\ fault.kind = "ClientError"
        THEN [st EXCEPT !.calls = calls, !.send = "ClientError"]
        ELSE IF fault.call = k /\ fault.kind = "Failed"
        THEN [st EXCEPT !.calls = calls,
                        !.delivered = Append(st.delivered,
                            SubSeq(st.task_entries, 1,
                                   Min(fault.kept, Len(st.task_entries) - 1))),
                        !.send = "AssertionError"]
        ELSE [st EXCEPT !.calls = calls,
                        !.delivered = Append(st.delivered, st.task_entries),
                        !.task_entries = <<>>]

\* the loop of send_message_list from the i-th message on, then the rest
RECURSIVE SendLoop(_, _, _, _)
SendLoop(message_list, i, st, fault) ==
    IF st.send # "none" THEN st
    ELSE IF i > Len(message_list)
    THEN LET last == IF st.task_entries # <<>> THEN SendEntryList(st, fault) ELSE st
         IN  IF last.send # "none" THEN last
             ELSE IF last.task_entries # <<>>
                  THEN [last EXCEPT !.send = "AssertionError"]
                  ELSE [last EXCEPT !.send = "returned"]
    ELSE LET appended == [st EXCEPT
                            !.task_entries = Append(st.task_entries, message_list[i])]
         IN  IF Len(appended.task_entries) = BatchSize
             THEN SendLoop(message_list, i + 1, SendEntryList(appended, fault), fault)
             ELSE SendLoop(message_list, i + 1, appended, fault)

\* send_message_list
SendMessageList ==
    /\ sqs.pc # "next"
    /\ sqs.send = "none"
    /\ \E message_list \in MessageLists, fault \in Faults :
         LET st == SendLoop(message_list, 1,
                            [task_entries |-> <<>>, delivered |-> <<>>,
                             calls |-> <<>>, send |-> "none"], fault)
         IN  sqs' = [sqs EXCEPT !.message_list = message_list,
                                !.delivered = st.delivered,
                                !.task_entries = st.task_entries,
                                !.send = st.send]
    /\ UNCHANGED <<invocation, cfg, pc, err, trace, output_bbox, output_mask, xyfactor, image,
                   output, upsampled, result, matched, log, entries, reads, store, uploads,
                   section_ids, pixels, clamped_image, plan>>

InitSqs ==
    /\ ExecutorIdle
    /\ plan = Unset
    /\ sqs \in { SQSQueue(wait) : wait \in WaitSettings }

NextSqs ==
    \/ Receive
    \/ Delete
    \/ SendMessageList

SpecSqs == InitSqs /\ [][NextSqs]_vars

(***************************************************************************)
(* The downsampling loop of _validate_image on its own: it is entered with *)
(* a clamped image of one validation voxel (2^n x 2^n lateral voxels, n    *)
(* the number of mip levels to go down) or of two, over one or two slices. *)
(***************************************************************************)
\* voxel values of a uint8 image that integer averaging rounds
PixelValues == {7, 9, 255}

\* the images that are 0 but for two voxels
SparseImages(shape) ==
    { [kind |-> "ndarray", shape |-> shape,
       data |-> [i \in Idx3(shape) |->
                   IF i = p1 THEN v1 ELSE IF i = p2 THEN v2 ELSE 0]] :
        p1 \in Idx3(shape), p2 \in Idx3(shape),
        v1 \in PixelValues, v2 \in PixelValues }

\* an image without a zero: the voxel values count up and wrap at 256
Ramp3(shape) ==
    [kind |-> "ndarray", shape |-> shape,
     data |-> [i \in Idx3(shape) |->
                 1 + ((i[3] + shape[3] * (i[2] + shape[2] * i[1])) % 255)]]

DownsampleConfigs ==
    { Executor(FALSE, 0, <<n>>, FALSE, "pytorch-multitask", <<0, 0, 0>>,
               DefaultChannels, <<0, 1, 1>>) : n \in 1 .. MaxHalvings }

InitDownsample ==
    /\ cfg \in DownsampleConfigs
    /\ pc = "downsample"
    /\ err = "none"
    /\ trace = <<>>
    /\ output_bbox = Unset
    /\ output_mask = Unset
    /\ xyfactor = 0
    /\ image = Unset
    /\ output = Unset
    /\ upsampled = Unset
    /\ result = "unset"
    /\ matched = "unset"
    /\ log = {}
    /\ invocation = 1
    /\ entries = Logged
    /\ reads = <<>>
    /\ store = <<>>
    /\ uploads = <<>>
    /\ section_ids = Unset
    /\ pixels = Unset
    /\ LET f == Pow2(cfg.image_validate_mip[1] - cfg.image_mip)
       IN  clamped_image \in SparseImages(<<1, f, f>>)
                                \cup {Ramp3(<<2, f, 2 * f>>)}
    /\ plan = Unset
    /\ sqs = Unset

\* for _ in range(image_validate_mip - image_mip): clamped_image = downsample...
DownsampleLoop ==
    /\ pc = "downsample"
    /\ pc' = "downsampled"
    /\ clamped_image' = RecursiveDownsample(clamped_image,
                                            cfg.image_validate_mip[1] - cfg.image_mip)
    /\ UNCHANGED <<aside, invocation, cfg, err, trace, output_bbox, output_mask, xyfactor,
                   image, output, upsampled, result, matched, log, entries, reads, store,
                   uploads>>

NextDownsample == DownsampleLoop

SpecDownsample == InitDownsample /\ [][NextDownsample]_vars

(***************************************************************************)
(* _validate_image on its own, the voxels of the image followed: the stage *)
(* is entered with an image that is one value everywhere but for a block   *)
(* of zeros, or with an image without a zero.                              *)
(***************************************************************************)
\* an image of value v with the voxels of a cube of edge e at p set to 0
ZeroBlockImage(shape, v, p, e) ==
    [kind |-> "ndarray", shape |-> shape,
     data |-> [i \in Idx3(shape) |->
                 IF \A a \in 1 .. 3 : p[a] <= i[a] /\ i[a] < p[a] + e
                 THEN 0 ELSE v]]

PixelImages(shape) ==
    { ZeroBlockImage(shape, v, p, e) :
        v \in {1, 9}, p \in Idx3(shape), e \in {0, MaxBlock - 1, MaxBlock} }
        \cup {Ramp3(shape)}

ValidateConfigs ==
    { Executor(FALSE, 0, <<1>>, FALSE, "pytorch-multitask", <<0, 0, 0>>,
               DefaultChannels, <<0, 1, 1>>) }

\* the boxes of such an image
ValidateBoxes ==
    { [start |-> <<1, ys, 0>>, stop |-> <<1 + d, ys + h, h>>] :
        d \in (MaxImageDepth - 1) .. MaxImageDepth, ys \in 0 .. MaxStart,
        h \in (MaxImageExtent - 2) .. MaxImageExtent }

InitValidate ==
    /\ cfg \in ValidateConfigs
    /\ pc = "validate_image"
    /\ err = "none"
    /\ trace = <<>>
    /\ output_bbox \in ValidateBoxes
    /\ xyfactor = 0
    /\ output_mask = NoneVal
    /\ LET slices == InputSlices(output_bbox, cfg.cropping_margin_size)
       IN  /\ image = [kind |-> "OffsetArray", global_offset |-> slices.start,
                       shape |-> Extent(slices), black |-> {}]
           /\ pixels \in PixelImages(Extent(slices))
    /\ output = Unset
    /\ upsampled = Unset
    /\ result = "unset"
    /\ matched = "unset"
    /\ log = {"read_image"}
    /\ invocation = 1
    /\ entries = Logged
    /\ reads = <<>>
    /\ store = <<>>
    /\ uploads = <<>>
    /\ section_ids = Unset
    /\ clamped_image = Unset
    /\ plan = Unset
    /\ sqs = Unset

NextValidate == ValidateImage

SpecValidate == InitValidate /\ [][NextValidate]_vars

(***************************************************************************)
(* Vocabulary of the properties.                                           *)
(***************************************************************************)
Entered(stage) == \E k \in 1 .. Len(trace) : trace[k] = stage

LastStage == IF trace = <<>> THEN "none" ELSE trace[Len(trace)]

IsPrefix(s, t) == Len(s) <= Len(t) /\ \A k \in 1 .. Len(s) : s[k] = t[k]

Paths(files) == [k \in 1 .. Len(files) |-> files[k].path]

MaskFetched == IsArray(output_mask)

MaskAllZero == MaskFetched /\ \A i \in DOMAIN output_mask.data : output_mask.data[i] = 0

MaskAllNonzero == MaskFetched /\ \A i \in DOMAIN output_mask.data : output_mask.data[i] # 0

OutputWritten == \E k \in 1 .. Len(store) : store[k].layer = "output"

ImageRead == \E k \in 1 .. Len(reads) : reads[k].vol = "image"

\* the test `if self.output_mask:` raised, which is no stage's failure
TruthTestRaised == pc = "raised" /\ err = "ValueError" /\ LastStage = "crop"

StageFailed == pc = "raised" /\ ~TruthTestRaised

\* the order of the stages of one invocation, apply-mask only with a mask
StageOrder(masked) ==
    <<"read_output_mask", "read_image", "validate_image",
      "mask_missing_sections", "inference", "crop">>
    \o (IF masked THEN <<"mask_output">> ELSE <<>>)
    \o <<"upload_output", "create_output_thumbnail", "upload_log">>

(***************************************************************************)
(* Properties of Executor.__call__ (checked under Spec).                   *)
(***************************************************************************)

\* C1: in an invocation whose mask is not all-zero and in which no stage
\* fails, the stages run once each in the fixed order (apply-mask only with a
\* mask) and the invocation is then done; no stage is entered twice.
C1_StagesInOrder ==
    /\ output_mask # Unset => IsPrefix(trace, StageOrder(MaskFetched))
    /\ (pc \in {"done", "raised"} /\ output_mask # Unset /\ ~MaskAllZero
          /\ ~StageFailed)
         => (pc = "done" /\ trace = StageOrder(MaskFetched))

\* C2: a fetched mask that is entirely zero ends the invocation right after
\* fetch-mask: no later stage is entered, no image is read, nothing is written
\* to the output store.
C2_BlackMaskEndsInvocation ==
    MaskAllZero =>
        /\ pc = "done"
        /\ trace = <<"read_output_mask">>
        /\ ~ImageRead
        /\ store = <<>>

C2_Witness ==
    /\ pc = "done"
    /\ MaskAllZero
    /\ Cardinality(DOMAIN output_mask.data) > 0

\* C3: the output store is written only after inference, crop-margin and, with
\* a mask, apply-mask have completed; a failure of the inference stage aborts
\* the invocation and nothing is ever written.
C3_NoPartialOutput ==
    /\ OutputWritten =>
         /\ {"_inference", "crop_output"} \subseteq log
         /\ MaskFetched => "mask_output" \in log
    /\ err \in {"TransformError", "Exception"} =>
         /\ pc = "raised"
         /\ LastStage = "inference"
         /\ store = <<>>

C3_Witness ==
    /\ pc = "raised"
    /\ err = "TransformError"
    /\ LastStage = "inference"
    /\ store = <<>>

C7_MismatchAborts ==
    matched = "False" =>
        /\ cfg.image_validate_mip # <<>>
        /\ pc = "raised"
        /\ err = "AssertionError"
        /\ LastStage = "validate_image"
        /\ ~Entered("mask_missing_sections")
        /\ ~Entered("inference")
        /\ ~Entered("upload_output")
        /\ store = <<>>

C7_Witness ==
    /\ matched = "False"
    /\ cfg.image_validate_mip # <<>>
    /\ pc = "raised"

\* C8: with a mask present (a mask layer configured, the fetched mask not
\* all-zero) apply-mask runs after crop-margin and the invocation goes on to
\* publish-output, for a mask of any size; without a mask layer apply-mask is
\* skipped and crop-margin is followed by publish-output.
C8_MaskStageRuns ==
    /\ (cfg.output_mask_layer_path /\ MaskFetched /\ ~MaskAllZero
          /\ "crop_output" \in log)
         => (pc = "mask_output" \/ Entered("mask_output"))
    /\ "mask_output" \in log => (pc = "upload_output" \/ Entered("upload_output"))
    /\ (~cfg.output_mask_layer_path /\ "crop_output" \in log)
         => /\ ~Entered("mask_output")
            /\ pc = "upload_output" \/ Entered("upload_output")

(***************************************************************************)
(* Properties of _mask_output (checked under SpecMask).                    *)
(***************************************************************************)
MaskStep == pc = "mask_output" /\ pc' # "mask_output"

OutputAllZero == \A i \in DOMAIN output.data : output.data[i] = 0

\* the mask covers the output exactly: depth as it is, lateral extents f times
MaskAligned ==
    /\ output_mask.shape[1] = output.shape[2]
    /\ output_mask.shape[2] * xyfactor = output.shape[3]
    /\ output_mask.shape[3] * xyfactor = output.shape[4]

\* C9: when neither early return applies, every voxel (z, y, x) of every
\* channel becomes its old value times mask[z, y div f, x div f], whatever the
\* number of output channels; the stage ends otherwise only by failing one of
\* its own assertions.
C9_MaskMultipliedIntoEveryChannel ==
    [][ (MaskStep /\ ~MaskAllNonzero /\ ~OutputAllZero /\ MaskAligned) =>
          /\ pc' = "raised" => err' = "AssertionError"
          /\ pc' # "raised" =>
               \A i \in Idx4(output.shape) :
                   output'.data[i] =
                       output.data[i]
                         * output_mask.data[<<i[2], i[3] \div xyfactor,
                                              i[4] \div xyfactor>>] ]_vars

\* C10: with every element of the mask nonzero, or with every output voxel
\* zero, _mask_output returns with the output and the mask as they were, no
\* upsampled mask built and nothing multiplied.
C10_ShortCircuit ==
    [][ (MaskStep /\ (MaskAllNonzero \/ OutputAllZero)) =>
          /\ pc' = "upload_output"
          /\ err' = "none"
          /\ output' = output
          /\ output_mask' = output_mask
          /\ upsampled' = Unset ]_vars

C10_Witness ==
    /\ pc = "upload_output"
    /\ trace = <<"mask_output">>
    /\ MaskAllNonzero
    /\ Cardinality(DOMAIN output_mask.data) > 1
    /\ ~OutputAllZero
    /\ upsampled = Unset

\* C11: for a margin (Md, Mh, Mw) >= 0 and a buffer of shape
\* (C, D + 2 Md, H + 2 Mh, W + 2 Mw), _crop yields a buffer of shape
\* (C, D, H, W) whose voxel (c, z, y, x) is voxel (c, z + Md, y + Mh, x + Mw)
\* of the buffer it was given; every channel is kept.
C11_MarginCrop ==
    [][pc = "crop" /\ IsArray(output)
         /\ (\A a \in 1 .. 3 :
               /\ cfg.cropping_margin_size[a] >= 0
               /\ output.shape[a + 1] >= 2 * cfg.cropping_margin_size[a])
       => LET M == cfg.cropping_margin_size
              inner == <<output.shape[1], output.shape[2] - 2 * M[1],
                         output.shape[3] - 2 * M[2], output.shape[4] - 2 * M[3]>>
          IN  /\ output'.shape = inner
              /\ DOMAIN output'.data = Idx4(inner)
              /\ \A i \in Idx4(inner) :
                    output'.data[i]
                      = output.data[<<i[1], i[2] + M[1], i[3] + M[2], i[4] + M[3]>>]
      ]_vars

\* a three-channel output was cropped by a depth margin smaller than the
\* lateral margin, and voxels are left
C11_Witness ==
    /\ LastStage = "crop"
    /\ pc = "upload_output"
    /\ cfg.cropping_margin_size[1] < cfg.cropping_margin_size[2]
    /\ cfg.cropping_margin_size[2] = cfg.cropping_margin_size[3]
    /\ output.shape = <<DefaultChannels>> \o Extent(output_bbox)
    /\ \E i \in DOMAIN output.data : output.data[i] # 0

\* the slices of the image whose global depth is in the id list
ListedSlices(img, ids) ==
    { z - img.global_offset[1] :
        z \in { ids[k] : k \in 1 .. Len(ids) }
              \cap (img.global_offset[1] .. (img.global_offset[1] + img.shape[1] - 1)) }

\* C12: for any ascending id list that loads and any image whose depth spans
\* [start, stop), _mask_missing_sections completes without error and zeroes
\* exactly the slices whose global depth is in the list and in [start, stop);
\* an id outside the range, the id equal to stop included, changes nothing.
\* Stated for the lists np.loadtxt returns as a 1-d array (not exactly one
\* id), so that a violation is one of the loop itself.
C12_MissingSectionsZeroed ==
    [][pc = "mask_missing_sections" /\ cfg.missing_section_ids_file_name
         /\ section_ids.kind = "ids" /\ Len(section_ids.ids) # 1
         /\ err' # "IOError"
       => /\ pc' = "inference"
          /\ err' = "none"
          /\ image' = [image EXCEPT
                         !.black = image.black \cup ListedSlices(image, section_ids.ids)]
      ]_vars

\* C13: a configuration whose overlap is not below the patch size is rejected
\* before any I/O: in no run with it is the mask store or the image store
\* read, or anything written to the output store.
C13_InvalidConfigRejectedBeforeIO ==
    (\E a \in 1 .. 3 : cfg.patch_overlap[a] >= cfg.patch_size[a])
        => reads = <<>> /\ store = <<>>

\* C14: with image_validate_mip None the validate-image stage is a no-op: it
\* reads no reference volume, publishes no log, raises no error and leaves
\* the image and the run log as they are (the key "validate_image" is the
\* time __call__ notes for the stage once it has returned).
C14_NoValidateMipIsNoOp ==
    [][pc = "validate_image" /\ cfg.image_validate_mip = <<>>
       => /\ reads' = reads
          /\ uploads' = uploads
          /\ store' = store
          /\ err' = "none"
          /\ pc' = "mask_missing_sections"
          /\ image' = image
          /\ log' \ {"validate_image"} = log
          /\ result' = result /\ matched' = matched
          /\ clamped_image' = clamped_image
      ]_vars

\* the stage has run without a validation mip, after the image was read
C14_Witness ==
    /\ LastStage = "validate_image"
    /\ pc = "mask_missing_sections"
    /\ cfg.image_validate_mip = <<>>
    /\ ImageRead
    /\ uploads = <<>>

\* the voxels of a box
Voxels(box) ==
    (box.start[1] .. box.stop[1] - 1) \X (box.start[2] .. box.stop[2] - 1)
        \X (box.start[3] .. box.stop[3] - 1)

\* the planned placements cover the input box exactly, and each lies in it
CoversExactly ==
    /\ UNION { Voxels(b) : b \in plan.placements } = Voxels(plan.input.box)
    /\ \A b \in plan.placements :
          /\ Extent(b) = plan.input.patch_size
          /\ \A a \in 1 .. 3 : /\ plan.input.box.start[a] <= b.start[a]
                                /\ b.stop[a] <= plan.input.box.stop[a]

\* C15: for any input box and any patch size and overlap with the overlap
\* below the patch size on every axis, the union of the placements is the
\* input box, every placement has the full patch size and none reaches
\* outside the box.
C15_TilingCoverage ==
    plan.state = "planned" => CoversExactly

\* C15 as amended: the same, for the input boxes that are at least one patch
\* wide on every axis.
C15_TilingCoverageOfWideBoxes ==
    /\ plan.state = "planned"
    /\ \A a \in 1 .. 3 : Extent(plan.input.box)[a] >= plan.input.patch_size[a]
    => CoversExactly

\* a box was planned whose last patch along an axis had to be moved back
C15_Witness ==
    /\ plan.state = "planned"
    /\ \A a \in 1 .. 3 : Extent(plan.input.box)[a] >= plan.input.patch_size[a]
    /\ \E a \in 1 .. 3 :
          /\ plan.input.patch_size[a] > plan.input.patch_overlap[a]
          /\ (Extent(plan.input.box)[a] - plan.input.patch_size[a])
                 % (plan.input.patch_size[a] - plan.input.patch_overlap[a]) # 0
    /\ Cardinality(plan.placements) > 1

\* a call of __next__ is over
NextOver == sqs.pc \in {"returned", "raised"}

\* C16: __next__ always ends, either returning a (receipt_handle, body) pair
\* or signalling StopIteration after a bounded wait, for every setting of
\* wait_if_empty (the failure of the digest test of a message left aside).
C16_NextReturnsOrStops ==
    NextOver /\ sqs.err # "AssertionError"
        => \/ sqs.err = "none" /\ sqs.value.kind = "pair"
           \/ sqs.err = "StopIteration"

\* C16 as amended: with wait_if_empty false an empty receive ends the call
\* with StopIteration at once; with wait_if_empty set the call sleeps and
\* calls itself after every empty receive, never signals StopIteration, and
\* ends with a message or, the queue staying empty, with the RecursionError
\* of the interpreter.
C16_NextRetriesWhileEmpty ==
    /\ sqs.pc = "next"
         => /\ sqs.wait_if_empty # 0 /\ sqs.err = "none"
            /\ sqs.depth \in 1 .. RecursionLimit - 1
            /\ sqs.slept = sqs.depth * sqs.wait_if_empty
    /\ sqs.pc = "returned"
         => /\ sqs.value.kind = "pair" /\ sqs.err = "none"
            /\ sqs.slept = sqs.depth * sqs.wait_if_empty
            /\ sqs.wait_if_empty = 0 => sqs.depth = 0
    /\ sqs.pc = "raised"
         => \/ /\ sqs.err = "StopIteration"
               /\ sqs.wait_if_empty = 0 /\ sqs.depth = 0 /\ sqs.slept = 0
            \/ /\ sqs.err = "RecursionError"
               /\ sqs.wait_if_empty # 0
               /\ sqs.depth = RecursionLimit - 1
               /\ sqs.slept = RecursionLimit * sqs.wait_if_empty
            \/ sqs.err = "AssertionError"

\* with the default wait the queue stayed empty as long as the interpreter
\* allows a retry, and the last retry returned a message
C16_Witness ==
    /\ sqs.pc = "returned"
    /\ sqs.wait_if_empty = DefaultWait
    /\ sqs.depth = RecursionLimit - 1
    /\ sqs.value.kind = "pair"

\* the batches one after the other
RECURSIVE Flatten(_)
Flatten(batches) ==
    IF batches = <<>> THEN <<>> ELSE Head(batches) \o Flatten(Tail(batches))

\* C19: send_message_list delivers every message of the list once and in
\* the order of the list, in batches of at most 10 of which all but the
\* last hold exactly 10, for a list of any length; when it returns no entry
\* is left unsent; a batch the service reports as failed ends the call with
\* an error, and nothing is sent after it.
C19_EveryMessageSentOnce ==
    /\ sqs.send = "returned"
         => /\ Flatten(sqs.delivered) = sqs.message_list
            /\ sqs.task_entries = <<>>
            /\ \A k \in 1 .. Len(sqs.delivered) :
                  /\ Len(sqs.delivered[k]) \in 1 .. BatchSize
                  /\ k < Len(sqs.delivered) => Len(sqs.delivered[k]) = BatchSize
    /\ sqs.send \in {"none", "returned", "AssertionError", "ClientError"}
    /\ sqs.send \in {"AssertionError", "ClientError"}
         => /\ IsPrefix(Flatten(sqs.delivered), sqs.message_list)
            /\ Flatten(sqs.delivered) # sqs.message_list

\* a list of more than two full batches was sent: two batches of 10 and a
\* shorter last one
C19_Witness ==
    /\ sqs.send = "returned"
    /\ Len(sqs.message_list) > 2 * BatchSize
    /\ Len(sqs.delivered) = 3
    /\ Len(sqs.delivered[3]) < BatchSize

\* the sum of a function over a finite set
RECURSIVE SumOver(_, _)
SumOver(f, S) ==
    IF S = {} THEN 0
    ELSE LET x == CHOOSE y \in S : TRUE IN f[x] + SumOver(f, S \ {x})

\* one box filter of edge k in the lateral axes: the integer average of
\* every k x k block
BoxAverage(a, k) ==
    LET shape == <<a.shape[1], a.shape[2] \div k, a.shape[3] \div k>>
    IN  [kind |-> "ndarray", shape |-> shape,
         data |-> [i \in Idx3(shape) |->
                     SumOver(a.data,
                             {i[1]} \X (k * i[2] .. k * i[2] + k - 1)
                                    \X (k * i[3] .. k * i[3] + k - 1))
                         \div (k * k)]]

\* the mip levels the loop goes down
Halvings == cfg.image_validate_mip[1] - cfg.image_mip

\* C17: halving by integer box averaging n times gives the voxels of one
\* box average of factor 2^n, for every n >= 1.
C17_HalvingEqualsBoxAverage ==
    [][pc = "downsample"
       => clamped_image' = BoxAverage(clamped_image, Pow2(Halvings))]_vars

\* C17 as amended: the two have the same shape and are equal for n = 1; for
\* n >= 2 a voxel halved n times is at most the voxel of the one box
\* average and less than n below it.
C17_HalvingBelowBoxAverage ==
    [][pc = "downsample"
       => LET direct == BoxAverage(clamped_image, Pow2(Halvings))
          IN  /\ clamped_image'.shape = direct.shape
              /\ DOMAIN clamped_image'.data = DOMAIN direct.data
              /\ \A i \in DOMAIN direct.data :
                    /\ clamped_image'.data[i] <= direct.data[i]
                    /\ direct.data[i] - clamped_image'.data[i] < Halvings
              /\ Halvings = 1 => clamped_image' = direct
      ]_vars

\* an image was halved twice or more, and voxels of the result are not zero
C17_Witness ==
    /\ pc = "downsampled"
    /\ Halvings >= 2
    /\ \E i \in DOMAIN clamped_image.data : clamped_image.data[i] # 0

\* the image holds a cube of zeros of the edge the heuristic looks for
HasLargeZeroBlock(a) ==
    \E p \in Idx3(a.shape) :
        /\ \A k \in 1 .. 3 : p[k] + TemplateEdge <= a.shape[k]
        /\ \A i \in Idx3(a.shape) :
              (\A k \in 1 .. 3 : p[k] <= i[k] /\ i[k] < p[k] + TemplateEdge)
                  => a.data[i] = 0

MaskEntirelyZero ==
    MaskFetched /\ DOMAIN output_mask.data # {} /\ MaskAllZero

\* C20: whenever _mask_output is entered with an output that has a nonzero
\* voxel, it returns with an output that still has a nonzero voxel or it
\* fails with an assertion error; it never returns with an all-zero output,
\* and it fails if the mask it is given is entirely zero.
C20_NeverSilentlyAllZero ==
    [][pc = "mask_output" /\ np_any(output)
       => /\ \/ pc' = "upload_output" /\ np_any(output')
             \/ pc' = "raised" /\ err' = "AssertionError"
          /\ MaskEntirelyZero => pc' = "raised" /\ err' = "AssertionError"
      ]_vars

\* the box grown by the margin m on both sides of every axis
Grown(bbox, m) ==
    [start |-> <<bbox.start[1] - m[1], bbox.start[2] - m[2], bbox.start[3] - m[3]>>,
     stop |-> <<bbox.stop[1] + m[1], bbox.stop[2] + m[2], bbox.stop[3] + m[3]>>]

\* the spatial shape of a czyx array
Spatial(a) == <<a.shape[2], a.shape[3], a.shape[4]>>

\* C21: _read_image reads [start - m, stop + m) per axis of the output box and
\* the image's global offset is the start of that region; _crop turns an
\* inference result of the image's spatial shape into an output of the
\* spatial shape of the output box; _upload_output writes that output to the
\* output box and nowhere else.
C21_MarginRoundTrip ==
    [][LET m == cfg.cropping_margin_size
           region == Grown(output_bbox, m)
       IN  /\ pc = "read_image" =>
                /\ reads' = Append(reads, [vol |-> "image", slices |-> region])
                /\ pc' = "validate_image" =>
                      /\ image'.global_offset = region.start
                      /\ image'.shape
                           = [a \in 1 .. 3 |-> region.stop[a] - region.start[a]]
           /\ pc = "crop" /\ Spatial(output) = image.shape =>
                /\ Spatial(output') = Extent(output_bbox)
                /\ output'.shape[1] = output.shape[1]
           /\ pc = "upload_output" /\ pc' = "create_output_thumbnail" =>
                /\ Len(store') = Len(store) + 1
                /\ store'[Len(store')].layer = "output"
                /\ store'[Len(store')].bbox = output_bbox
                /\ DOMAIN store'[Len(store')].data
                     = Idx4(<<output.shape[1]>> \o Extent(output_bbox))
      ]_vars

\* an output read with a depth margin and one lateral margin, cropped, and
\* written to the store
C21_Witness ==
    /\ pc = "create_output_thumbnail"
    /\ cfg.cropping_margin_size = <<1, 0, 1>>
    /\ Len(reads) = 1 /\ reads[1].vol = "image"
    /\ Len(store) = 1 /\ store[1].layer = "output"
    /\ Extent(output_bbox)[2] > 1
\* C22: every invocation of __call__ starts with an empty log; within an
\* invocation a key that was written stays, with the value it was written
\* with; a published log is the log of the invocation that publishes it, with
\* no entry recorded by an earlier invocation on the same object.
C22_LogAppendOnlyAndFresh ==
    [][/\ log' = DOMAIN entries'
       /\ invocation' # invocation => log' = {}
       /\ invocation' = invocation =>
            \A k \in DOMAIN entries :
                k \in DOMAIN entries' /\ entries'[k] = entries[k]
       /\ uploads' # uploads =>
            /\ Len(uploads') = Len(uploads) + 1
            /\ DOMAIN entries \subseteq uploads'[Len(uploads')].content
            /\ uploads'[Len(uploads')].content \subseteq DOMAIN entries'
            /\ \A k \in uploads'[Len(uploads')].content :
                  entries'[k].call = invocation'
      ]_vars

\* the second invocation on an object published its log, after the first had
\* published an error log and its own log
C22_Witness ==
    /\ invocation = 2
    /\ pc = "done"
    /\ Paths(uploads) = <<"error", "log", "log">>
    /\ uploads[2].file_path # uploads[3].file_path
    /\ "device" \in log
\* the voxels of the output bounding box, in global coordinates
BoxVoxels ==
    (output_bbox.start[1] .. output_bbox.stop[1] - 1)
        \X (output_bbox.start[2] .. output_bbox.stop[2] - 1)
        \X (output_bbox.start[3] .. output_bbox.stop[3] - 1)

\* a global coordinate lies in a region
Inside(v, region) ==
    \A a \in 1 .. 3 : region.start[a] <= v[a] /\ v[a] < region.stop[a]

\* C23: with f = 2^(output_mask_mip - output_mip), the mask is fetched for
\* [start div f, stop div f) on the two lateral axes and the depth range of
\* the output box as it is, and for every box, aligned to f or not, the
\* lateral extent of the box is f times that of the fetched mask and every
\* voxel (z, y, x) of the box has its element (z, y div f, x div f) inside
\* the fetched region.
C23_MaskCoversOutput ==
    MaskFetched =>
        LET f == Pow2(cfg.output_mask_mip - cfg.output_mip)
            region == reads[1].slices
        IN  /\ reads[1].vol = "output_mask"
            /\ region.start = <<output_bbox.start[1], output_bbox.start[2] \div f,
                                output_bbox.start[3] \div f>>
            /\ region.stop = <<output_bbox.stop[1], output_bbox.stop[2] \div f,
                               output_bbox.stop[3] \div f>>
            /\ output_mask.shape[1] = output_bbox.stop[1] - output_bbox.start[1]
            /\ \A a \in 2 .. 3 :
                  output_bbox.stop[a] - output_bbox.start[a] = f * output_mask.shape[a]
            /\ \A v \in BoxVoxels :
                  Inside(<<v[1], v[2] \div f, v[3] \div f>>, region)
\* _validate_image runs with validation asked for
ValidateStep == pc = "validate_image" /\ pc' # "validate_image" /\ ValidationConfigured(cfg)

\* C24: the clamped region of _validate_image lies inside the fetched image
\* region, its lateral start and stop are multiples of
\* f = 2^(image_validate_mip - image_mip) counted from the volume's voxel
\* offset, and along depth it is the whole depth range of the image: the
\* image that is validated has every depth slice of the fetched image.
C24_ClampKeepsEveryDepthSlice ==
    [][ValidateStep =>
          LET f == Pow2(cfg.image_validate_mip[1] - cfg.image_mip)
              go == image.global_offset
              clamped == ClampedSlices(image, cfg)
          IN  /\ \A a \in 1 .. 3 :
                    /\ go[a] <= clamped.start[a]
                    /\ clamped.stop[a] <= go[a] + image.shape[a]
              /\ \A a \in 2 .. 3 :
                    /\ (clamped.start[a] - VoxelOffset[a]) % f = 0
                    /\ (clamped.stop[a] - VoxelOffset[a]) % f = 0
              /\ clamped.start[1] = go[1]
              /\ clamped.stop[1] = go[1] + image.shape[1]
              /\ IsArray(clamped_image') => clamped_image'.shape[1] = image.shape[1]
      ]_vars
====
